---- MODULE Spec2Model ----
(***************************************************************************)
(* A model of the ledger of src/src/blockchain.rs: the block sequence and  *)
(* the unspent-output set of Blockchain, and update_with_block, its one    *)
(* mutating operation.  Outputs are identified as in src/src/output.rs.    *)
(*                                                                         *)
(* Values are counted in units of 2^62, so that a u64 holds 0..3 units and *)
(* 2^64 is U64Units = 4 units: the sums of the model wrap exactly where    *)
(* the u64 sums of the code wrap.                                          *)
(***************************************************************************)
EXTENDS Integers, Sequences, FiniteSets, TLC

\* ------------------------------------------------------------------ bounds
MaxChain == 3       \* calls are made while the chain is shorter than this
MaxTxs == 3         \* transactions of a candidate block
MaxTime == 2        \* timestamps are 0..MaxTime
MaxAddr == 2        \* bytes of an address, where addresses are enumerated

\* 2^64 in units of 2^62: the width of Output.value
U64Units == 4

\* ------------------------------------------------------- collaborators' data

\* Hashes of blocks: 0 stands for vec![0; 32]
ZeroHash == 0
BlockHashes == {0, 1}
Difficulties == {1, 2}
Timestamps == 0..MaxTime

\* the fixed-width encoding of a u64 of v units of 2^62, most significant byte first
u64_bytes(v) == <<v * 64, 0, 0, 0, 0, 0, 0, 0>>

\* a variant of OutputBytes: the value is written without its zero bytes
OutputBytes_Unpadded(o) ==
    o.to_addr \o (IF o.value = 0 THEN <<>> ELSE <<o.value * 64>>)

\* Hashable::bytes of Output
OutputBytes(o) == o.to_addr \o u64_bytes(o.value)

\* the digest of a byte string: an ideal one, that tells all byte strings apart
Digest(bytes) == <<"digest", bytes>>

\* Hashable::hash of Output
OutputHash(o) == Digest(OutputBytes(o))

RECURSIVE SumValues(_)
SumValues(os) == IF os = <<>> THEN 0 ELSE Head(os).value + SumValues(Tail(os))

input_hashes(tx) == {OutputHash(tx.inputs[k]) : k \in 1..Len(tx.inputs)}
output_hashes(tx) == {OutputHash(tx.outputs[k]) : k \in 1..Len(tx.outputs)}
input_value(tx) == SumValues(tx.inputs)
output_value(tx) == SumValues(tx.outputs)
is_coinbase(tx) == Len(tx.inputs) = 0

\* Block::hash(): a digest of the block's other fields (not of its hash field)
BlockHash(b) ==
    (b.index + b.timestamp + b.prev_block_hash + b.difficulty + 1 + Len(b.transactions))
        % Cardinality(BlockHashes)

check_difficulty(hash, difficulty) == hash < difficulty

\* ------------------------------------------------------------------ inputs
\* sequences over S of length at most n
RECURSIVE SeqsUpTo(_, _)
SeqsUpTo(S, n) ==
    IF n = 0 THEN {<<>>}
    ELSE LET shorter == SeqsUpTo(S, n - 1)
         IN  shorter \cup {Append(s, x) : s \in {t \in shorter : Len(t) = n - 1}, x \in S}

OutA == [to_addr |-> <<65>>, value |-> 1]
OutB == [to_addr |-> <<66>>, value |-> 1]

Tx(ins, outs) == [inputs |-> ins, outputs |-> outs]

\* The transactions of the candidate blocks: those without inputs, those that
\* spend and create nothing (an output once, or twice in one input list), one
\* that creates what it spends and one that creates more than it spends.
Transactions ==
    {Tx(<<>>, outs) : outs \in {<<>>, <<OutB>>, <<OutA, OutB>>}}
        \cup {Tx(ins, <<>>) : ins \in {<<OutA>>, <<OutA, OutA>>, <<OutB, OutB>>}}
        \cup {Tx(<<OutA>>, outs) : outs \in {<<OutA>>, <<OutA, OutB>>}}

TransactionLists == SeqsUpTo(Transactions, MaxTxs)

CandidateBlocks ==
    [index : 0..(MaxChain - 1), timestamp : Timestamps, prev_block_hash : BlockHashes,
     hash : BlockHashes, difficulty : Difficulties, transactions : TransactionLists]

\* -------------------------------------------------------------------- state
VARIABLES
    blocks,             \* Blockchain.blocks
    unspent_outputs,    \* Blockchain.unspent_outputs
    call,               \* <<the block of the call that has just ended>>, or <<>>
    result              \* that call's outcome: "Ok", an error or "Panic"; or "None"

vars == <<blocks, unspent_outputs, call, result>>

BlockValidationError ==
    {"MismatchedIndex", "InvalidHash", "AchronologicalTimestamps", "MismatchedPreviousHash",
     "InvalidGenesisBlockFormat", "InvalidInput", "InsufficientInputValue",
     "InvalidCoinbaseTransaction"}

\* ------------------------------------------------------- update_with_block
\* the outcome of a call: what it returns and the ledger it leaves
Outcome(r, bs, us) == [result |-> r, blocks |-> bs, unspent_outputs |-> us]

\* a variant of InputsRejected: the inputs are not looked up in the unspent outputs
InputsRejected_SpentOnly(ih, unspent, block_spent) == (ih \cap block_spent) # {}

\* lines 67-68: some input is not unspent, or is spent earlier in this block
InputsRejected(ih, unspent, block_spent) ==
    (ih \ unspent) # {} \/ (ih \cap block_spent) # {}

\* line 76
ValueRejected(iv, ov) == ov > iv

\* line 81: total_fee += fee on u64; wrapped is set where the sum passes 2^64
AddFee(total_fee, fee) ==
    [sum |-> (total_fee + fee) % U64Units, wrapped |-> total_fee + fee >= U64Units]

\* lines 63-85: the loop over the transactions that follow the coinbase
RECURSIVE SettleLoop(_, _, _, _, _, _)
SettleLoop(transactions, unspent, block_spent, block_created, total_fee, wrapped) ==
    IF transactions = <<>>
    THEN [error |-> "None", block_spent |-> block_spent, block_created |-> block_created,
          total_fee |-> total_fee, wrapped |-> wrapped]
    ELSE LET transaction == Head(transactions)
             ih == input_hashes(transaction)
             oh == output_hashes(transaction)
             iv == input_value(transaction)
             ov == output_value(transaction)
             added == AddFee(total_fee, iv - ov)
         IN  IF InputsRejected(ih, unspent, block_spent)
             THEN [error |-> "InvalidInput", block_spent |-> block_spent,
                   block_created |-> block_created, total_fee |-> total_fee,
                   wrapped |-> wrapped]
             ELSE IF ValueRejected(iv, ov)
             THEN [error |-> "InsufficientInputValue", block_spent |-> block_spent,
                   block_created |-> block_created, total_fee |-> total_fee,
                   wrapped |-> wrapped]
             ELSE SettleLoop(Tail(transactions), unspent, block_spent \cup ih,
                             block_created \cup oh, added.sum, wrapped \/ added.wrapped)

\* line 87
CoinbaseRejected(coinbase, total_fee) == output_value(coinbase) < total_fee

\* a variant of Push: the block is put in front of the chain
Push_Front(chain, block) == <<block>> \o chain

\* line 99: self.blocks.push(block)
Push(chain, block) == Append(chain, block)

\* a variant of Commit: nothing is taken away, the created are added
Commit_KeepsSpent(unspent, block_spent, block_created) == unspent \cup block_created

\* a variant of Commit: extend by the created, then retain what the block did not spend
Commit_ExtendThenRetain(unspent, block_spent, block_created) ==
    {output \in unspent \cup block_created : output \notin block_spent}

\* lines 93-96: retain the outputs the block did not spend, then extend by the created
Commit(unspent, block_spent, block_created) ==
    {output \in unspent : output \notin block_spent} \cup block_created

\* a variant of Settle: the unspent outputs are updated before the coinbase's
\* value is checked
Settle_CommitsEarly(chain, unspent, block) ==
    IF block.transactions = <<>>
    THEN Outcome("Ok", Append(chain, block), unspent)
    ELSE LET coinbase == Head(block.transactions)
             loop == SettleLoop(Tail(block.transactions), unspent, {}, {}, 0, FALSE)
             committed == Commit(unspent, loop.block_spent,
                                 loop.block_created \cup output_hashes(coinbase))
         IN  IF ~is_coinbase(coinbase)
             THEN Outcome("InvalidCoinbaseTransaction", chain, unspent)
             ELSE IF loop.error # "None"
             THEN Outcome(loop.error, chain, unspent)
             ELSE IF CoinbaseRejected(coinbase, loop.total_fee)
             THEN Outcome("InvalidCoinbaseTransaction", chain, committed)
             ELSE Outcome("Ok", Append(chain, block), committed)

\* a variant of Settle: the first transaction is checked after the others
Settle_CoinbaseCheckedLast(chain, unspent, block) ==
    IF block.transactions = <<>>
    THEN Outcome("Ok", Append(chain, block), unspent)
    ELSE LET coinbase == Head(block.transactions)
             loop == SettleLoop(Tail(block.transactions), unspent, {}, {}, 0, FALSE)
         IN  IF loop.error # "None"
             THEN Outcome(loop.error, chain, unspent)
             ELSE IF ~is_coinbase(coinbase) \/ CoinbaseRejected(coinbase, loop.total_fee)
             THEN Outcome("InvalidCoinbaseTransaction", chain, unspent)
             ELSE Outcome("Ok", Append(chain, block),
                          Commit(unspent, loop.block_spent,
                                 loop.block_created \cup output_hashes(coinbase)))

\* lines 55-100 in a build without overflow checks: total_fee wraps
Settle(chain, unspent, block) ==
    IF block.transactions = <<>>
    THEN Outcome("Ok", Push(chain, block), unspent)
    ELSE LET coinbase == Head(block.transactions)
             loop == SettleLoop(Tail(block.transactions), unspent, {}, {}, 0, FALSE)
         IN  IF ~is_coinbase(coinbase)
             THEN Outcome("InvalidCoinbaseTransaction", chain, unspent)
             ELSE IF loop.error # "None"
             THEN Outcome(loop.error, chain, unspent)
             ELSE IF CoinbaseRejected(coinbase, loop.total_fee)
             THEN Outcome("InvalidCoinbaseTransaction", chain, unspent)
             ELSE Outcome("Ok", Push(chain, block),
                          Commit(unspent, loop.block_spent,
                                 loop.block_created \cup output_hashes(coinbase)))

\* line 81 in a build with overflow checks: the call panics where total_fee wraps
SettleOverflows(unspent, block) ==
    /\ block.transactions # <<>>
    /\ is_coinbase(Head(block.transactions))
    /\ SettleLoop(Tail(block.transactions), unspent, {}, {}, 0, FALSE).wrapped

\* a variant of HeaderError: a timestamp equal to the previous block's passes
HeaderError_EqualTimestamp(i, prev_block, block) ==
    IF block.index # i THEN "MismatchedIndex"
    ELSE IF ~check_difficulty(BlockHash(block), block.difficulty) THEN "InvalidHash"
    ELSE IF i # 0
    THEN IF block.timestamp < prev_block.timestamp THEN "AchronologicalTimestamps"
         ELSE IF block.prev_block_hash # prev_block.hash THEN "MismatchedPreviousHash"
         ELSE "None"
    ELSE IF block.prev_block_hash # ZeroHash THEN "InvalidGenesisBlockFormat"
         ELSE "None"

\* lines 34-53: the checks of the block's header against the block before it
HeaderError(i, prev_block, block) ==
    IF block.index # i THEN "MismatchedIndex"
    ELSE IF ~check_difficulty(BlockHash(block), block.difficulty) THEN "InvalidHash"
    ELSE IF i # 0
    THEN IF block.timestamp <= prev_block.timestamp THEN "AchronologicalTimestamps"
         ELSE IF block.prev_block_hash # prev_block.hash THEN "MismatchedPreviousHash"
         ELSE "None"
    ELSE IF block.prev_block_hash # ZeroHash THEN "InvalidGenesisBlockFormat"
         ELSE "None"

\* lines 30-31: blocks[i - 1] is evaluated first; with i = 0 the subtraction
\* overflows (a panic with overflow checks) or the index is out of bounds (a
\* panic without them)
PrevBlockPanics(chain) == Len(chain) = 0

\* the outcomes of update_with_block(block) on the ledger (chain, unspent): one
\* per build
Outcomes(chain, unspent, block) ==
    IF PrevBlockPanics(chain) THEN {Outcome("Panic", chain, unspent)}
    ELSE LET i == Len(chain)
             header == HeaderError(i, chain[i], block)
         IN  IF header # "None" THEN {Outcome(header, chain, unspent)}
             ELSE {Settle(chain, unspent, block)}
                  \cup (IF SettleOverflows(unspent, block)
                        THEN {Outcome("Panic", chain, unspent)} ELSE {})

UpdateWithBlock(block) ==
    /\ \E out \in Outcomes(blocks, unspent_outputs, block) :
          /\ blocks' = out.blocks
          /\ unspent_outputs' = out.unspent_outputs
          /\ result' = out.result
    /\ call' = <<block>>

\* ----------------------------------------------------------- specifications
\* Blockchain::new
Init ==
    /\ blocks = <<>>
    /\ unspent_outputs = {}
    /\ call = <<>>
    /\ result = "None"

\* the caller has taken the call's outcome (a panic unwinds and leaves the ledger
\* as it is)
Return ==
    /\ call # <<>>
    /\ call' = <<>>
    /\ result' = "None"
    /\ UNCHANGED <<blocks, unspent_outputs>>

\* a caller calls update_with_block with some block, no call being under way
Call ==
    /\ call = <<>>
    /\ Len(blocks) < MaxChain
    /\ \E block \in CandidateBlocks : UpdateWithBlock(block)

Next == Call \/ Return

Spec == Init /\ [][Next]_vars

\* A genesis block cannot enter through update_with_block (PrevBlockPanics): a
\* ledger with blocks has had its first one written to the public field blocks.
\* The seeds are the blocks of the earliest timestamp that meet the genesis checks
\* of lines 34-38 and 50, store their own digest as their hash and carry no
\* transaction, the private unspent_outputs being empty.
GenesisSeeds ==
    {g \in CandidateBlocks :
        /\ HeaderError(0, g, g) = "None"
        /\ g.hash = BlockHash(g)
        /\ g.transactions = <<>>
        /\ g.timestamp = 0}

InitTip ==
    /\ blocks \in {<<g>> : g \in GenesisSeeds}
    /\ unspent_outputs = {}
    /\ call = <<>>
    /\ result = "None"

SpecTip == InitTip /\ [][Next]_vars

\* Ledgers that spend: outputs of 2^63 each, so that two fees reach 2^64 while
\* every sum inside one transaction stays below it, and calls on longer chains,
\* so that an output can be created, spent and referred to again.
OutC == [to_addr |-> <<67>>, value |-> 2]
OutD == [to_addr |-> <<68>>, value |-> 2]

\* the coinbases that pay OutC or OutD and the transactions that spend one of
\* them as a fee
SpendTransactions ==
    {Tx(<<>>, <<OutC>>), Tx(<<>>, <<OutD>>), Tx(<<OutC>>, <<>>), Tx(<<OutD>>, <<>>)}

SpendCandidates ==
    [index : 0..(MaxChain + 1), timestamp : 0..(MaxTime + 2),
     prev_block_hash : BlockHashes, hash : BlockHashes, difficulty : Difficulties,
     transactions : SeqsUpTo(SpendTransactions, MaxTxs)]

\* the ledgers that accepting the block b leaves, from the ledgers of the set
AfterAccepting(ledgers, coinbase, timestamp) ==
    LET funding == {b \in SpendCandidates :
                       /\ b.transactions = <<coinbase>>
                       /\ b.timestamp = timestamp
                       /\ b.hash = BlockHash(b)}
    IN  {out \in UNION {Outcomes(l.blocks, l.unspent_outputs, b)
                            : l \in ledgers, b \in funding} : out.result = "Ok"}

\* the ledgers update_with_block leaves when it accepts, after a first block, a
\* block whose coinbase pays OutC and then one whose coinbase pays OutD
SpendSeeds ==
    AfterAccepting(
        AfterAccepting({Outcome("Ok", <<g>>, {}) : g \in GenesisSeeds},
                       Tx(<<>>, <<OutC>>), 1),
        Tx(<<>>, <<OutD>>), 2)

InitSpend ==
    /\ \E out \in SpendSeeds :
          /\ blocks = out.blocks
          /\ unspent_outputs = out.unspent_outputs
    /\ call = <<>>
    /\ result = "None"

CallSpend ==
    /\ call = <<>>
    /\ Len(blocks) <= MaxChain + 1
    /\ \E block \in SpendCandidates : UpdateWithBlock(block)

NextSpend == CallSpend \/ Return

SpecSpend == InitSpend /\ [][NextSpend]_vars

\* Ledgers that are paid pairs of outputs: addresses of up to MaxAddr bytes, some
\* of them bytes that the encoding of a value has too, and every u64 value of
\* the scale; the two values of a pair sum to less than 2^64.
Addresses == SeqsUpTo({0, 64, 65}, MaxAddr)
Outputs == [to_addr : Addresses, value : 0..(U64Units - 1)]
OutputPairs == {p \in Outputs \X Outputs : p[1].value + p[2].value < U64Units}

\* the blocks that follow a first block and carry a coinbase paying a pair
OutputCandidates ==
    [index : {1}, timestamp : {1}, prev_block_hash : BlockHashes, hash : {ZeroHash},
     difficulty : {2}, transactions : {<<Tx(<<>>, <<p[1], p[2]>>)>> : p \in OutputPairs}]

CallOutput ==
    /\ call = <<>>
    /\ Len(blocks) = 1
    /\ \E block \in OutputCandidates : UpdateWithBlock(block)

NextOutput == CallOutput \/ Return

SpecOutput == InitTip /\ [][NextOutput]_vars

\* ------------------------------------------------------------------- claims
\* the output hashes of all the transactions of the blocks of chain
Created(chain) ==
    UNION {UNION {output_hashes(chain[i].transactions[k])
                      : k \in 1..Len(chain[i].transactions)} : i \in 1..Len(chain)}

\* the input-reference hashes of all the transactions of the blocks of chain
Consumed(chain) ==
    UNION {UNION {input_hashes(chain[i].transactions[k])
                      : k \in 1..Len(chain[i].transactions)} : i \in 1..Len(chain)}

\* the unspent outputs of a chain, block after block from none: each block takes
\* away the outputs its transactions refer to and then adds those they create
RECURSIVE Replay(_)
Replay(chain) ==
    IF chain = <<>> THEN {}
    ELSE LET before == Replay(SubSeq(chain, 1, Len(chain) - 1))
             last == <<chain[Len(chain)]>>
         IN  (before \ Consumed(last)) \cup Created(last)

\* no block of the chain creates an output hash that it or an earlier block consumes
NothingCreatedAgain(chain) ==
    \A i \in 1..Len(chain) :
        Consumed(SubSeq(chain, 1, i)) \cap Created(<<chain[i]>>) = {}

PassesGenesisChecks(b) ==
    /\ b.index = 0
    /\ check_difficulty(BlockHash(b), b.difficulty)
    /\ b.prev_block_hash = ZeroHash

CoinbaseOnly(b) == Len(b.transactions) = 1 /\ is_coinbase(b.transactions[1])

\* C1: on the ledger of Blockchain::new, update_with_block of a block of index 0,
\* all-zero prev_block_hash, a hash that meets its difficulty and a coinbase as
\* its only transaction returns Ok and leaves a chain of length 1 and exactly the
\* coinbase's output hashes unspent.
C1_GenesisAccepted ==
    [][(/\ blocks = <<>>
        /\ unspent_outputs = {}
        /\ call' # <<>>
        /\ PassesGenesisChecks(call'[1])
        /\ CoinbaseOnly(call'[1]))
       => (/\ result' = "Ok"
           /\ Len(blocks') = 1
           /\ unspent_outputs' = output_hashes(call'[1].transactions[1]))]_vars

\* C2: a call that does not return Ok leaves the block sequence and the
\* unspent-output set exactly as they were.
C2_RejectionChangesNothing ==
    [][(call' # <<>> /\ result' # "Ok")
       => (blocks' = blocks /\ unspent_outputs' = unspent_outputs)]_vars

\* a block is rejected for its coinbase by a ledger that holds unspent outputs
C2_Witness ==
    /\ call # <<>>
    /\ result = "InvalidCoinbaseTransaction"
    /\ is_coinbase(call[1].transactions[1])
    /\ unspent_outputs # {}

C4_ChainWellFormed ==
    /\ \A i \in 1..Len(blocks) : blocks[i].index = i - 1
    /\ blocks # <<>> => blocks[1].prev_block_hash = ZeroHash
    /\ \A i \in 2..Len(blocks) :
          /\ blocks[i].prev_block_hash = blocks[i - 1].hash
          /\ blocks[i].timestamp > blocks[i - 1].timestamp

\* two blocks have been accepted after the first
C4_Witness == Len(blocks) = MaxChain /\ result = "Ok"

\* the checks of the header as section 4.1 states them, against the chain
PassesHeaderChecks(chain, b) ==
    /\ b.index = Len(chain)
    /\ check_difficulty(BlockHash(b), b.difficulty)
    /\ chain = <<>> => b.prev_block_hash = ZeroHash
    /\ chain # <<>> =>
          /\ b.timestamp > chain[Len(chain)].timestamp
          /\ b.prev_block_hash = chain[Len(chain)].hash

CoinbaseFirst(b) == b.transactions # <<>> /\ is_coinbase(b.transactions[1])

\* the hashes the transactions 2..k-1 of the list refer to
SpentBefore(txs, k) == UNION {input_hashes(txs[j]) : j \in 2..(k - 1)}

ForeignInput(txs, k, unspent) == input_hashes(txs[k]) \ unspent # {}
RespentInput(txs, k) == input_hashes(txs[k]) \cap SpentBefore(txs, k) # {}
FailsInputs(txs, k, unspent) == ForeignInput(txs, k, unspent) \/ RespentInput(txs, k)
FailsValue(txs, k) == output_value(txs[k]) > input_value(txs[k])

\* the transactions after the coinbase that fail a check; the first one is the least
Failing(txs, unspent) ==
    {k \in 2..Len(txs) : FailsInputs(txs, k, unspent) \/ FailsValue(txs, k)}
IsFirstFailing(txs, k, unspent) ==
    k \in Failing(txs, unspent) /\ \A j \in Failing(txs, unspent) : k <= j

\* the sum of input_value - output_value over the transactions k.. of the list
RECURSIVE FeesFrom(_, _)
FeesFrom(txs, k) ==
    IF k > Len(txs) THEN 0
    ELSE input_value(txs[k]) - output_value(txs[k]) + FeesFrom(txs, k + 1)
ExactTotalFee(txs) == FeesFrom(txs, 2)

\* the result C5 gives a call: the error of the first failing check, or Ok
ExpectedResult(chain, unspent, b) ==
    LET txs == b.transactions
        tip == chain[Len(chain)]
    IN  IF b.index # Len(chain) THEN "MismatchedIndex"
        ELSE IF ~check_difficulty(BlockHash(b), b.difficulty) THEN "InvalidHash"
        ELSE IF chain = <<>> /\ b.prev_block_hash # ZeroHash
        THEN "InvalidGenesisBlockFormat"
        ELSE IF chain # <<>> /\ b.timestamp <= tip.timestamp
        THEN "AchronologicalTimestamps"
        ELSE IF chain # <<>> /\ b.prev_block_hash # tip.hash
        THEN "MismatchedPreviousHash"
        ELSE IF txs = <<>> THEN "Ok"
        ELSE IF ~is_coinbase(txs[1]) THEN "InvalidCoinbaseTransaction"
        ELSE IF \E k \in 2..Len(txs) :
                    IsFirstFailing(txs, k, unspent) /\ FailsInputs(txs, k, unspent)
        THEN "InvalidInput"
        ELSE IF Failing(txs, unspent) # {} THEN "InsufficientInputValue"
        ELSE IF output_value(txs[1]) < ExactTotalFee(txs)
        THEN "InvalidCoinbaseTransaction"
        ELSE "Ok"

\* C5: the result of every call is the error of the first failing check in the
\* order index, difficulty, genesis format or timestamp then previous hash,
\* coinbase first, per transaction inputs before value, coinbase value against
\* the total fee; and it is Ok exactly when no check fails.
C5_FirstFailingCheck ==
    [][call' # <<>> => result' = ExpectedResult(blocks, unspent_outputs, call'[1])]_vars

\* some output hash is referred to by two inputs of the transactions after the coinbase
RepeatedInput(b) ==
    LET txs == b.transactions
        refs == UNION {{<<k, m>> : m \in 1..Len(txs[k].inputs)} : k \in 2..Len(txs)}
        at(r) == OutputHash(txs[r[1]].inputs[r[2]])
    IN  \E r, q \in refs : r # q /\ at(r) = at(q)

\* C6: no accepted block consumes the same output hash twice, be it in two
\* transactions or in the input list of one (such a block is rejected with
\* InvalidInput).
C6_NoAcceptedDoubleSpend ==
    \A i \in 1..Len(blocks) : ~RepeatedInput(blocks[i])

\* C7: the inputs of the transactions of an accepted block were unspent before
\* the call; and a block that passes the header checks and the coinbase-first
\* check, and whose first failing transaction refers to a hash that is not
\* unspent, is rejected with InvalidInput.
C7_ForeignInputRejected ==
    [][call' # <<>> =>
        LET b == call'[1]
            txs == b.transactions
        IN  /\ result' = "Ok" =>
                \A k \in 2..Len(txs) : input_hashes(txs[k]) \subseteq unspent_outputs
            /\ (/\ PassesHeaderChecks(blocks, b)
                /\ CoinbaseFirst(b)
                /\ \E k \in 2..Len(txs) :
                      /\ IsFirstFailing(txs, k, unspent_outputs)
                      /\ ForeignInput(txs, k, unspent_outputs))
               => result' = "InvalidInput"]_vars

NotCoinbaseFirst(b) == b.transactions # <<>> /\ ~is_coinbase(b.transactions[1])

\* C8, as claimed: a block whose first transaction is not a coinbase is rejected
\* with InvalidCoinbaseTransaction, whatever its index, hash, timestamp, previous
\* hash and other transactions.
C8_AlwaysInvalidCoinbase ==
    (call # <<>> /\ NotCoinbaseFirst(call[1])) => result = "InvalidCoinbaseTransaction"

\* C8, amended: a block whose first transaction is not a coinbase is never
\* accepted; when it passes the index, difficulty, timestamp and previous-hash
\* checks against the chain's last block it is rejected with
\* InvalidCoinbaseTransaction, whatever its other transactions.
C8_InvalidCoinbaseAfterHeader ==
    [][(call' # <<>> /\ NotCoinbaseFirst(call'[1])) =>
        /\ result' # "Ok"
        /\ (blocks # <<>> /\ PassesHeaderChecks(blocks, call'[1]))
               => result' = "InvalidCoinbaseTransaction"]_vars

\* a block that passes the header checks is rejected for its first transaction,
\* its second one referring to a hash that is not unspent
C8_Witness ==
    /\ call # <<>>
    /\ result = "InvalidCoinbaseTransaction"
    /\ PassesHeaderChecks(blocks, call[1])
    /\ NotCoinbaseFirst(call[1])
    /\ Len(call[1].transactions) > 1
    /\ ForeignInput(call[1].transactions, 2, unspent_outputs)

\* C9: a block that passes the header checks and the coinbase-first check, and
\* whose first failing transaction has valid inputs and an output value above
\* its input value, is rejected with InsufficientInputValue; and no transaction
\* after the coinbase of an accepted block creates more than it spends.
C9_InsufficientValueRejected ==
    [][call' # <<>> =>
        LET b == call'[1]
            txs == b.transactions
        IN  /\ result' = "Ok" => \A k \in 2..Len(txs) : ~FailsValue(txs, k)
            /\ (/\ PassesHeaderChecks(blocks, b)
                /\ CoinbaseFirst(b)
                /\ \E k \in 2..Len(txs) :
                      /\ IsFirstFailing(txs, k, unspent_outputs)
                      /\ ~FailsInputs(txs, k, unspent_outputs))
               => result' = "InsufficientInputValue"]_vars

\* C10: in every accepted block with transactions the output value of the
\* coinbase is at least the block's total fee, the sum of input_value -
\* output_value over its other transactions (a block whose coinbase is worth
\* less is rejected with InvalidCoinbaseTransaction).
C10_CoinbaseCoversFees ==
    \A i \in 1..Len(blocks) :
        blocks[i].transactions # <<>> =>
            output_value(blocks[i].transactions[1]) >= ExactTotalFee(blocks[i].transactions)

\* C11: on every ledger, the empty one included, a call with a block whose index
\* is not the length of the chain returns MismatchedIndex and leaves the ledger
\* as it was.
C11_MismatchedIndexRejected ==
    [][(call' # <<>> /\ call'[1].index # Len(blocks))
       => (/\ result' = "MismatchedIndex"
           /\ blocks' = blocks
           /\ unspent_outputs' = unspent_outputs)]_vars

\* C12: on the empty chain, a block of index 0 whose hash meets its difficulty
\* and whose prev_block_hash is not the all-zero hash is rejected with
\* InvalidGenesisBlockFormat.
C12_BadGenesisRejected ==
    [][(/\ blocks = <<>>
        /\ call' # <<>>
        /\ call'[1].index = 0
        /\ call'[1].hash = BlockHash(call'[1])
        /\ check_difficulty(BlockHash(call'[1]), call'[1].difficulty)
        /\ call'[1].prev_block_hash # ZeroHash)
       => result' = "InvalidGenesisBlockFormat"]_vars

\* C13: a block without transactions that passes the index and difficulty checks
\* and the genesis check (empty chain) or the timestamp and previous-hash checks
\* (otherwise) is accepted: it is appended and the unspent-output set is left as
\* it was.
C13_EmptyBlockAccepted ==
    [][(/\ call' # <<>>
        /\ call'[1].transactions = <<>>
        /\ PassesHeaderChecks(blocks, call'[1]))
       => (/\ result' = "Ok"
           /\ blocks' = Append(blocks, call'[1])
           /\ unspent_outputs' = unspent_outputs)]_vars

\* the hashes the transactions after the coinbase of the block refer to
SpentBy(b) == SpentBefore(b.transactions, Len(b.transactions) + 1)

\* C14: a successful call with a block that has transactions leaves as unspent
\* the old set minus the input-reference hashes of the block's transactions after
\* the coinbase, united with the output hashes of all its transactions, the
\* coinbase's included (a hash the block both spends and creates stays); and the
\* chain grows by exactly that block.
C14_AcceptedBlockDelta ==
    [][(call' # <<>> /\ result' = "Ok" /\ call'[1].transactions # <<>>)
       => (/\ unspent_outputs' =
                  (unspent_outputs \ SpentBy(call'[1])) \cup Created(<<call'[1]>>)
           /\ blocks' = Append(blocks, call'[1]))]_vars

\* a block has been accepted that spends one hash for good and both spends and
\* creates another, which is unspent
C14_Witness ==
    /\ call # <<>>
    /\ result = "Ok"
    /\ blocks[Len(blocks)] = call[1]
    /\ \E h \in SpentBy(call[1]) \cap Created(<<call[1]>>) : h \in unspent_outputs
    /\ \E h \in SpentBy(call[1]) : h \notin unspent_outputs

\* C15: the stored hash field of every block of the chain, the one the next
\* block's prev_block_hash is compared with, meets that block's difficulty.
C15_StoredHashMeetsDifficulty ==
    \A i \in 1..Len(blocks) : check_difficulty(blocks[i].hash, blocks[i].difficulty)

\* some block of the chain consumes h, and neither it nor a later one creates h
SpentForGood(chain, h) ==
    \E i \in 1..Len(chain) :
        /\ h \in Consumed(<<chain[i]>>)
        /\ h \notin Created(SubSeq(chain, i, Len(chain)))

RefersToSpent(chain, b) == \E h \in Consumed(<<b>>) : SpentForGood(chain, h)

\* the exact sum of the fees of the transactions 2..k-1 of the list
FeesBefore(txs, k) == ExactTotalFee(SubSeq(txs, 1, k - 1))

\* C16, as claimed: a candidate block with a transaction that refers to an output
\* hash which an accepted block consumed, and which no accepted block has created
\* since, is rejected with InvalidInput.
C16_RespendInvalidInput ==
    [][(call' # <<>> /\ RefersToSpent(blocks, call'[1])) => result' = "InvalidInput"]_vars

\* C16, amended: such a candidate is never accepted and leaves the ledger as it
\* was; when it passes the header checks, its first transaction is a coinbase and
\* the first of its transactions to fail a check is one that refers to such a
\* hash, the call returns InvalidInput, unless the fees of the transactions before
\* that one reach 2^64, where it may panic instead.
C16_RespendNeverAccepted ==
    [][(call' # <<>> /\ RefersToSpent(blocks, call'[1])) =>
        LET b == call'[1]
            txs == b.transactions
        IN  /\ result' # "Ok"
            /\ blocks' = blocks
            /\ unspent_outputs' = unspent_outputs
            /\ \A k \in 2..Len(txs) :
                  (/\ PassesHeaderChecks(blocks, b)
                   /\ CoinbaseFirst(b)
                   /\ IsFirstFailing(txs, k, unspent_outputs)
                   /\ \E h \in input_hashes(txs[k]) : SpentForGood(blocks, h))
                  => \/ result' = "InvalidInput"
                     \/ result' = "Panic" /\ FeesBefore(txs, k) >= U64Units]_vars

\* a block that passes the header checks and starts with a coinbase is rejected
\* with InvalidInput for a hash that a block of the chain consumed, other outputs
\* being unspent
C16_Witness ==
    /\ call # <<>>
    /\ result = "InvalidInput"
    /\ PassesHeaderChecks(blocks, call[1])
    /\ CoinbaseFirst(call[1])
    /\ RefersToSpent(blocks, call[1])
    /\ unspent_outputs # {}

\* C20: on a block that passes the header checks, starts with a coinbase and
\* whose other transactions each pass the input and value checks (none of them
\* naming an output twice), the total fee compared with the coinbase's value is
\* the exact sum of input_value - output_value: the call does not panic, and it
\* returns Ok exactly when the coinbase's value is at least that sum.
C20_TotalFeeExact ==
    [][(/\ call' # <<>>
        /\ PassesHeaderChecks(blocks, call'[1])
        /\ CoinbaseFirst(call'[1])
        /\ ~RepeatedInput(call'[1])
        /\ Failing(call'[1].transactions, unspent_outputs) = {})
       => (/\ result' # "Panic"
           /\ result' = "Ok" <=>
                  output_value(call'[1].transactions[1])
                      >= ExactTotalFee(call'[1].transactions))]_vars

\* C17: the chain is append-only: every step leaves the block sequence as it was
\* or extends it at its end by exactly the block of the call; no block of the
\* chain is removed, moved or altered.
C17_AppendOnly ==
    [][\/ blocks' = blocks
       \/ call' # <<>> /\ blocks' = Append(blocks, call'[1])]_vars

\* calls have appended their blocks after the first block, which is in its place
C17_Witness ==
    /\ call # <<>>
    /\ result = "Ok"
    /\ Len(blocks) = MaxChain
    /\ blocks[Len(blocks)] = call[1]
    /\ blocks[1] \in GenesisSeeds
    /\ blocks[1] # call[1]

\* the output hashes the transactions 1..k-1 of the list create
CreatedBefore(txs, k) == UNION {output_hashes(txs[j]) : j \in 1..(k - 1)}

\* the transaction k refers to a hash that the coinbase or an earlier transaction
\* of the list creates and that is not unspent
SpendsOwnOutput(txs, k, unspent) ==
    (input_hashes(txs[k]) \cap CreatedBefore(txs, k)) \ unspent # {}

\* C18: outputs a block creates are not spendable in that block: a block that
\* passes the header checks and starts with a coinbase, and whose first failing
\* transaction refers to a hash that the coinbase or an earlier transaction of
\* the block creates and that is not unspent, is rejected with InvalidInput; and
\* no accepted block has such a transaction.
C18_OwnOutputsNotSpendable ==
    [][call' # <<>> =>
        LET b == call'[1]
            txs == b.transactions
        IN  /\ result' = "Ok" =>
                \A k \in 2..Len(txs) : ~SpendsOwnOutput(txs, k, unspent_outputs)
            /\ (/\ PassesHeaderChecks(blocks, b)
                /\ CoinbaseFirst(b)
                /\ \E k \in 2..Len(txs) :
                      /\ IsFirstFailing(txs, k, unspent_outputs)
                      /\ SpendsOwnOutput(txs, k, unspent_outputs))
               => result' = "InvalidInput"]_vars

\* C19: the bytes of an output are its address bytes followed by the 8 bytes of
\* its value; two outputs have equal bytes, and equal hashes, exactly when they
\* have the same address and the same value; and two outputs of the same address
\* and value, paid by an accepted block, are one entry of the unspent-output set.
C19_OutputIdentity ==
    [][call' # <<>> =>
        LET o1 == call'[1].transactions[1].outputs[1]
            o2 == call'[1].transactions[1].outputs[2]
            same == o1.to_addr = o2.to_addr /\ o1.value = o2.value
        IN  /\ Len(OutputBytes(o1)) = Len(o1.to_addr) + 8
            /\ SubSeq(OutputBytes(o1), 1, Len(o1.to_addr)) = o1.to_addr
            /\ OutputBytes(o1) = OutputBytes(o2) <=> same
            /\ OutputHash(o1) = OutputHash(o2) <=> same
            /\ result' = "Ok" =>
                  /\ unspent_outputs' = unspent_outputs \cup {OutputHash(o1), OutputHash(o2)}
                  /\ Cardinality(unspent_outputs' \ unspent_outputs)
                         = IF same THEN 1 ELSE 2]_vars

\* a block has been accepted whose coinbase pays twice the same value to the
\* same address, and one output is unspent
C19_Witness ==
    /\ call # <<>>
    /\ result = "Ok"
    /\ Len(call[1].transactions[1].outputs) = 2
    /\ call[1].transactions[1].outputs[1] = call[1].transactions[1].outputs[2]
    /\ call[1].transactions[1].outputs[1].value > 0
    /\ Len(call[1].transactions[1].outputs[1].to_addr) = MaxAddr
    /\ Cardinality(unspent_outputs) = 1

====
